---------------------------- MODULE Spec2Model ----------------------------
(***************************************************************************)
(* Model of the text humanization service (ml-service/main.py).            *)
(*                                                                         *)
(* Text is a sequence of one-character strings.  The pretrained models     *)
(* (BART, T5, the sentence transformer) are opaque: their outputs are      *)
(* drawn from small sets.  The /humanize-text generator is modelled per    *)
(* request, cut at the points where the coroutine gives the event loop     *)
(* back (its yields); functions of TextHumanizer are operators.            *)
(***************************************************************************)
EXTENDS Integers, Sequences, FiniteSets, TLC

VARIABLES
    \* ---- the process ----
    np_random,            \* numpy's global random state: the draws to come
    np_random0,           \* the random state the process started with
    running,        \* the request whose coroutine holds the event loop inside
                    \* a synchronous stage call, or None
    \* ---- per /humanize-text request ----
    request,        \* the HumanizationRequest: text and user_patterns
    pc,             \* where generate_humanized_text is suspended
    current_text,   \* its local current_text
    user_patterns,  \* its local user_patterns
    log,            \* what it did, in order: stage begins and ends, raises,
                    \* and the items it yielded to the stream
    \* ---- the function harness (one call of one TextHumanizer method) ----
    arg,        \* the arguments of the call
    ret,        \* what the call returned (or that it raised)
    step        \* how far the harness is

pvars == <<np_random, np_random0, running, request, pc, current_text, user_patterns, log>>
uvars == <<arg, ret, step>>
vars == <<np_random, np_random0, running, request, pc, current_text, user_patterns, log,
          arg, ret, step>>

None == "none"

\* no request is in the process: the state of a harness, which calls one
\* method of TextHumanizer on its own
PipelineIdle ==
    /\ np_random = <<0>>
    /\ np_random0 = <<0>>
    /\ running = None
    /\ request = <<>>
    /\ pc = <<>>
    /\ current_text = <<>>
    /\ user_patterns = <<>>
    /\ log = <<>>

(***************************************************************************)
(* Python str operations on character sequences                            *)
(***************************************************************************)
IsSpace(c) == c = " "

IsPrefix(p, s) == Len(p) <= Len(s) /\ SubSeq(s, 1, Len(p)) = p

\* sub in s
RECURSIVE Contains(_, _)
Contains(s, sub) ==
    IF Len(s) < Len(sub) THEN FALSE
    ELSE IF IsPrefix(sub, s) THEN TRUE
    ELSE Contains(Tail(s), sub)

\* s.replace(old, new), old non-empty: leftmost, non-overlapping occurrences
RECURSIVE Replace(_, _, _)
Replace(s, old, new) ==
    IF Len(s) < Len(old) THEN s
    ELSE IF IsPrefix(old, s)
         THEN new \o Replace(SubSeq(s, Len(old) + 1, Len(s)), old, new)
         ELSE <<Head(s)>> \o Replace(Tail(s), old, new)

RECURSIVE LStrip(_)
LStrip(s) == IF s # <<>> /\ IsSpace(Head(s)) THEN LStrip(Tail(s)) ELSE s

RECURSIVE RStrip(_)
RStrip(s) ==
    IF s # <<>> /\ IsSpace(s[Len(s)]) THEN RStrip(SubSeq(s, 1, Len(s) - 1)) ELSE s

\* s.strip()
Strip(s) == RStrip(LStrip(s))

\* s.split(sep) for a one-character sep: the pieces, empty ones included
RECURSIVE SplitOn(_, _)
SplitOn(s, sep) ==
    IF \E i \in 1..Len(s) : s[i] = sep
    THEN LET i == CHOOSE k \in 1..Len(s) :
                      s[k] = sep /\ \A j \in 1..(k - 1) : s[j] # sep
         IN  <<SubSeq(s, 1, i - 1)>> \o SplitOn(SubSeq(s, i + 1, Len(s)), sep)
    ELSE <<s>>

\* s.split(): the whitespace-delimited tokens, none of them empty
RECURSIVE SplitWs(_)
SplitWs(s) ==
    LET t == LStrip(s)
    IN  IF t = <<>> THEN <<>>
        ELSE LET n == IF \E i \in 1..Len(t) : IsSpace(t[i])
                      THEN (CHOOSE k \in 1..Len(t) :
                               IsSpace(t[k]) /\ \A j \in 1..(k - 1) : ~IsSpace(t[j])) - 1
                      ELSE Len(t)
             IN  <<SubSeq(t, 1, n)>> \o SplitWs(SubSeq(t, n + 1, Len(t)))

\* sep.join(parts)
RECURSIVE Join(_, _)
Join(parts, sep) ==
    IF parts = <<>> THEN <<>>
    ELSE IF Len(parts) = 1 THEN parts[1]
    ELSE parts[1] \o sep \o Join(Tail(parts), sep)

\* the characters of s that are not whitespace
RECURSIVE NonWs(_)
NonWs(s) ==
    IF s = <<>> THEN <<>>
    ELSE IF IsSpace(Head(s)) THEN NonWs(Tail(s))
    ELSE <<Head(s)>> \o NonWs(Tail(s))

RECURSIVE Flatten(_)
Flatten(ss) == IF ss = <<>> THEN <<>> ELSE Head(ss) \o Flatten(Tail(ss))

\* every concatenation of at most n pieces
RECURSIVE Concats(_, _)
Concats(pieces, n) ==
    IF n = 0 THEN {<<>>}
    ELSE LET shorter == Concats(pieces, n - 1)
         IN  shorter \cup {p \o t : p \in pieces, t \in shorter}

(***************************************************************************)
(* The linguistic analyzer models['nlp'] (spaCy): tokens and sentences.    *)
(* A token is a maximal run of letters, one punctuation character, or a    *)
(* run of whitespace; the single space that follows a token belongs to     *)
(* that token (ws) and is no token of its own.  A sentence ends with a     *)
(* "." token; whitespace tokens stay with the sentence before them.        *)
(***************************************************************************)
Letters ==
    {"a","b","c","d","e","f","g","h","i","j","k","l","m",
     "n","o","p","q","r","s","t","u","v","w","x","y","z"}

IsLetter(c) == c \in Letters

\* the length of the longest prefix of s whose characters are all of one kind
RECURSIVE RunLen(_, _)
RunLen(s, kind) ==
    IF s = <<>> THEN 0
    ELSE IF (kind = "space" /\ IsSpace(Head(s))) \/ (kind = "alpha" /\ IsLetter(Head(s)))
    THEN 1 + RunLen(Tail(s), kind)
    ELSE 0

Token(chars, kind, ws) ==
    [text |-> chars, is_alpha |-> kind = "alpha", is_space |-> kind = "space",
     pos_ |-> CASE kind = "alpha" -> "X" [] kind = "space" -> "SPACE" [] OTHER -> "PUNCT",
     ws |-> ws]

\* doc = nlp(text): the tokens
RECURSIVE nlp(_)
nlp(s) ==
    IF s = <<>> THEN <<>>
    ELSE IF IsSpace(Head(s))
    THEN LET n == RunLen(s, "space")
         IN  <<Token(SubSeq(s, 1, n), "space", FALSE)>> \o nlp(SubSeq(s, n + 1, Len(s)))
    ELSE LET n    == IF IsLetter(Head(s)) THEN RunLen(s, "alpha") ELSE 1
             kind == IF IsLetter(Head(s)) THEN "alpha" ELSE "punct"
             rest == SubSeq(s, n + 1, Len(s))
             ws   == rest # <<>> /\ IsSpace(Head(rest))
         IN  <<Token(SubSeq(s, 1, n), kind, ws)>>
             \o nlp(IF ws THEN Tail(rest) ELSE rest)

\* how many tokens the first sentence of doc has
RECURSIVE SentLen(_)
SentLen(doc) ==
    IF doc = <<>> THEN 0
    ELSE IF Head(doc).text = <<".">>
    THEN 1 + (LET after == Tail(doc)
                  RECURSIVE Spaces(_)
                  Spaces(d) == IF d # <<>> /\ Head(d).is_space
                               THEN 1 + Spaces(Tail(d)) ELSE 0
              IN  Spaces(after))
    ELSE 1 + SentLen(Tail(doc))

\* list(doc.sents): each sentence is its tokens
RECURSIVE Sents(_)
Sents(doc) ==
    IF doc = <<>> THEN <<>>
    ELSE LET n == SentLen(doc)
         IN  <<SubSeq(doc, 1, n)>> \o Sents(SubSeq(doc, n + 1, Len(doc)))

\* sent.text: the tokens with their spaces, without the last token's
RECURSIVE SpanText(_)
SpanText(toks) ==
    IF toks = <<>> THEN <<>>
    ELSE Head(toks).text
         \o (IF Len(toks) > 1 /\ Head(toks).ws THEN <<" ">> ELSE <<>>)
         \o SpanText(Tail(toks))

Take(seq, n) == SubSeq(seq, 1, IF Len(seq) < n THEN Len(seq) ELSE n)

RECURSIVE Sum(_)
Sum(xs) == IF xs = <<>> THEN 0 ELSE Head(xs) + Sum(Tail(xs))

RECURSIVE SelectAlpha(_)
SelectAlpha(doc) ==
    IF doc = <<>> THEN <<>>
    ELSE (IF Head(doc).is_alpha THEN <<Head(doc)>> ELSE <<>>) \o SelectAlpha(Tail(doc))

(***************************************************************************)
(* Layer 1: analyze_user_patterns.  A mean is the fraction num/den; a      *)
(* standard deviation is sqrt(sq)/den (numpy's population std).            *)
(***************************************************************************)
DefaultAvg == 15
DefaultStd == 5
DefaultWordLength == 5
SampleCap == 50
StructureSentences == 20
StructureCap == 10

Mean(xs) == [num |-> Sum(xs), den |-> Len(xs)]

Std(xs) ==
    [sq  |-> Len(xs) * Sum([i \in 1..Len(xs) |-> xs[i] * xs[i]]) - Sum(xs) * Sum(xs),
     den |-> Len(xs)]

Number(n) == [num |-> n, den |-> 1]

Deviation(n) == [sq |-> n * n, den |-> 1]

Raised(exc) == [raised |-> TRUE, exc |-> exc]

Returned(v) == [raised |-> FALSE, value |-> v]

\* _analyze_vocabulary_complexity(doc)
analyze_vocabulary_complexity(doc) ==
    LET alpha        == SelectAlpha(doc)
        word_lengths == [i \in 1..Len(alpha) |-> Len(alpha[i].text)]
        tags         == {doc[i].pos_ : i \in 1..Len(doc)}
        pos_counts   == [t \in tags |-> Cardinality({i \in 1..Len(doc) : doc[i].pos_ = t})]
        lemmas       == {alpha[i].text : i \in 1..Len(alpha)}
    IN  IF doc # <<>> /\ alpha = <<>>
        THEN Raised("ZeroDivisionError")
        ELSE Returned(
            [avg_word_length   |-> IF word_lengths # <<>> THEN Mean(word_lengths)
                                   ELSE Number(DefaultWordLength),
             pos_distribution  |-> pos_counts,
             unique_word_ratio |-> IF doc # <<>>
                                   THEN [num |-> Cardinality(lemmas), den |-> Len(alpha)]
                                   ELSE [num |-> 1, den |-> 2]])

RECURSIVE NonSpaceTags(_)
NonSpaceTags(toks) ==
    IF toks = <<>> THEN <<>>
    ELSE (IF Head(toks).is_space THEN <<>> ELSE <<Head(toks).pos_>>)
         \o NonSpaceTags(Tail(toks))

\* _analyze_sentence_structures(sentences)
analyze_sentence_structures(sentences) ==
    Take([i \in 1..Len(sentences) |-> NonSpaceTags(sentences[i])], StructureCap)

\* analyze_user_patterns(text): the profile, or the exception it raises
analyze_user_patterns(text) ==
    LET doc              == nlp(text)
        sentences        == Sents(doc)
        sentence_lengths == [i \in 1..Len(sentences) |->
                                 Len(SplitWs(SpanText(sentences[i])))]
        vocab            == analyze_vocabulary_complexity(doc)
    IN  IF vocab.raised THEN vocab
        ELSE Returned(
            [keys |-> {"avg_sentence_length", "sentence_length_std", "sentence_lengths",
                       "vocab_complexity", "sentence_structures"},
             avg_sentence_length |-> IF sentence_lengths # <<>> THEN Mean(sentence_lengths)
                                     ELSE Number(DefaultAvg),
             sentence_length_std |-> IF sentence_lengths # <<>> THEN Std(sentence_lengths)
                                     ELSE Deviation(DefaultStd),
             sentence_lengths    |-> Take(sentence_lengths, SampleCap),
             vocab_complexity    |-> vocab.value,
             sentence_structures |->
                 analyze_sentence_structures(Take(sentences, StructureSentences)),
             common_phrases      |-> <<>>])

\* a == n, for a mean a
MeanIs(a, n) == a.num = n * a.den

\* d == n, for a standard deviation d and n >= 0
StdIs(d, n) == d.sq = n * n * d.den * d.den

(***************************************************************************)
(* Harness for analyze_user_patterns                                       *)
(***************************************************************************)
MaxAnalyzePieces == 3

AnalyzePieces == { <<"a">>, <<"b","b">>, <<" ">>, <<".">>, <<" "," ">> }

AnalyzeInputs == Concats(AnalyzePieces, MaxAnalyzePieces)

InitAnalyze ==
    /\ PipelineIdle
    /\ arg \in AnalyzeInputs
    /\ ret = <<>>
    /\ step = 0

AnalyzeCall ==
    /\ step = 0
    /\ ret' = analyze_user_patterns(arg)
    /\ step' = 1
    /\ UNCHANGED <<arg, pvars>>

NextAnalyze == AnalyzeCall

SpecAnalyze == InitAnalyze /\ [][NextAnalyze]_vars

\* C8: on empty and on whitespace-only text analyze_user_patterns does not
\* raise and returns avg_sentence_length = 15 and sentence_length_std = 5.
AnalyzeBlankGivesDefaults ==
    (step = 1 /\ \A i \in 1..Len(arg) : IsSpace(arg[i])) =>
        /\ ~ret.raised
        /\ MeanIs(ret.value.avg_sentence_length, DefaultAvg)
        /\ StdIs(ret.value.sentence_length_std, DefaultStd)

(***************************************************************************)
(* Layer 1: structural_humanization and _split_sentence.  `result` is the  *)
(* text BART decoded for the prompt; `results` holds one per overlong      *)
(* sentence, in the order of the calls.                                    *)
(***************************************************************************)
\* user_patterns.get(key, default)
Get(patterns, key, default) ==
    IF key \in patterns.keys THEN patterns[key] ELSE default

\* [s.strip() + '.' for s in pieces if s.strip()]
RECURSIVE CleanFragments(_)
CleanFragments(pieces) ==
    IF pieces = <<>> THEN <<>>
    ELSE (IF Strip(Head(pieces)) # <<>> THEN <<Strip(Head(pieces)) \o <<".">>>> ELSE <<>>)
         \o CleanFragments(Tail(pieces))

\* _split_sentence with line 188 testing for at least one fragment
split_sentence_one_fragment(sentence, result) ==
    LET split_sentences == CleanFragments(SplitOn(result, "."))
    IN  IF Len(split_sentences) >= 1 THEN split_sentences ELSE <<sentence>>

\* _split_sentence(sentence), the model having generated `result`
split_sentence(sentence, result) ==
    LET split_sentences == CleanFragments(SplitOn(result, "."))
    IN  IF Len(split_sentences) > 1 THEN split_sentences ELSE <<sentence>>

\* line 154 with >= for >
TooLong_or_equal(current_length, avg, std) ==
    LET x == (current_length * avg.den - avg.num) * std.den
    IN  x >= 0 /\ x * x >= avg.den * avg.den * std.sq

\* current_length > target_avg_length + target_std
TooLong(current_length, avg, std) ==
    LET x == (current_length * avg.den - avg.num) * std.den
    IN  x > 0 /\ x * x > avg.den * avg.den * std.sq

\* current_length < target_avg_length - target_std
TooShort(current_length, avg, std) ==
    LET x == (avg.num - current_length * avg.den) * std.den
    IN  x > 0 /\ x * x > avg.den * avg.den * std.sq

\* the loop of lines 150-161
RECURSIVE Restructure(_, _, _, _)
Restructure(sentences, avg, std, results) ==
    IF sentences = <<>> THEN <<>>
    ELSE LET text           == SpanText(Head(sentences))
             current_length == Len(SplitWs(text))
         IN  IF TooLong(current_length, avg, std)
             THEN split_sentence(text, Head(results))
                  \o Restructure(Tail(sentences), avg, std, Tail(results))
             ELSE IF TooShort(current_length, avg, std)
             THEN <<text>> \o Restructure(Tail(sentences), avg, std, results)
             ELSE <<text>> \o Restructure(Tail(sentences), avg, std, results)

\* how many sentences of text structural_humanization sends to _split_sentence
SplitCalls(text, patterns) ==
    LET sentences == Sents(nlp(text))
        avg == Get(patterns, "avg_sentence_length", Number(DefaultAvg))
        std == Get(patterns, "sentence_length_std", Deviation(DefaultStd))
    IN  Cardinality({i \in 1..Len(sentences) :
                        TooLong(Len(SplitWs(SpanText(sentences[i]))), avg, std)})

\* the sent.text that structural_humanization passes to _split_sentence, in
\* the order of the calls (lines 150-155)
SplitArguments(text, patterns) ==
    LET sentences == Sents(nlp(text))
        avg == Get(patterns, "avg_sentence_length", Number(DefaultAvg))
        std == Get(patterns, "sentence_length_std", Deviation(DefaultStd))
    IN  SelectSeq([i \in 1..Len(sentences) |-> SpanText(sentences[i])],
                  LAMBDA t : TooLong(Len(SplitWs(t)), avg, std))

structural_humanization(text, patterns, results) ==
    LET sentences == Sents(nlp(text))
        target_avg_length == Get(patterns, "avg_sentence_length", Number(DefaultAvg))
        target_std == Get(patterns, "sentence_length_std", Deviation(DefaultStd))
    IN  Join(Restructure(sentences, target_avg_length, target_std, results), <<" ">>)

(***************************************************************************)
(* Layer 3: authenticity_injection, T5 having decoded `result`             *)
(***************************************************************************)
AuthPromptPrefix ==
    <<"R","e","w","r","i","t","e"," ","t","h","i","s"," ","t","e","x","t"," ","t","o"," ","s","o","u","n","d"," ","m","o","r","e"," ","n","a","t","u","r","a","l"," ","a","n","d"," ","h","u","m","a","n",","," ","w","i","t","h"," ","m","i","n","o","r"," ","i","m","p","e","r","f","e","c","t","i","o","n","s",":"," ">>

\* the method returning line 244's result as it is, without line 246's test
authenticity_injection_no_fallback(text, result) ==
    LET prompt == AuthPromptPrefix \o text
    IN  IF Contains(result, prompt)
        THEN Strip(Replace(result, prompt, <<>>))
        ELSE result

authenticity_injection(text, result) ==
    LET prompt   == AuthPromptPrefix \o text
        stripped == IF Contains(result, prompt)
                    THEN Strip(Replace(result, prompt, <<>>))
                    ELSE result
    IN  IF stripped # <<>> THEN stripped ELSE text

(***************************************************************************)
(* Layer 4: personal_voice_integration.  numpy's process-global random     *)
(* state is the stream of the draws to come: a draw takes the first and    *)
(* moves the state on.  A draw d stands for random() = d/10, and for       *)
(* choice(phrases) = phrases[d mod len(phrases)].                          *)
(***************************************************************************)
InsertTenths == 3

RandomDraw(rng) == Head(rng)

RandomNext(rng) == Tail(rng) \o <<Head(rng)>>

\* the loop of lines 262-270 from sentence i (0-based) on: the pieces and the
\* random state it leaves
RECURSIVE Enhance(_, _, _, _)
Enhance(sentences, i, common_phrases, rng) ==
    IF i >= Len(sentences) THEN [pieces |-> <<>>, rng |-> rng]
    ELSE LET sentence == sentences[i + 1]
         IN  IF Strip(sentence) = <<>>
             THEN Enhance(sentences, i + 1, common_phrases, rng)
             ELSE IF i < Len(sentences) - 1 /\ Len(common_phrases) > 0
             THEN IF RandomDraw(rng) < InsertTenths
                  THEN LET rng2   == RandomNext(rng)
                           phrase == common_phrases[(RandomDraw(rng2) % Len(common_phrases)) + 1]
                           rest   == Enhance(sentences, i + 1, common_phrases, RandomNext(rng2))
                       IN  [pieces |-> <<Strip(sentence), <<" ">> \o phrase \o <<",">>>>
                                       \o rest.pieces,
                            rng |-> rest.rng]
                  ELSE LET rest == Enhance(sentences, i + 1, common_phrases, RandomNext(rng))
                       IN  [pieces |-> <<Strip(sentence)>> \o rest.pieces, rng |-> rest.rng]
             ELSE LET rest == Enhance(sentences, i + 1, common_phrases, rng)
                  IN  [pieces |-> <<Strip(sentence)>> \o rest.pieces, rng |-> rest.rng]

\* the method without the early return of lines 255-256
personal_voice_integration_no_guard(text, patterns, rng) ==
    LET common_phrases == Get(patterns, "common_phrases", <<>>)
        enhanced == Enhance(SplitOn(text, "."), 0, common_phrases, rng)
    IN  [text |-> Join(enhanced.pieces, <<".", " ">>), rng |-> enhanced.rng]

\* personal_voice_integration(text, user_patterns): the text returned and the
\* random state left behind
personal_voice_integration(text, patterns, rng) ==
    LET common_phrases == Get(patterns, "common_phrases", <<>>)
    IN  IF common_phrases = <<>> THEN [text |-> text, rng |-> rng]
        ELSE LET enhanced == Enhance(SplitOn(text, "."), 0, common_phrases, rng)
             IN  [text |-> Join(enhanced.pieces, <<".", " ">>), rng |-> enhanced.rng]

(***************************************************************************)
(* Layer 5: coherence_preservation.  `similarity` is the cosine similarity *)
(* of the two embeddings, in hundredths.                                   *)
(***************************************************************************)
CoherenceThreshold == 85

\* the gate with the comparison taken as "at most the threshold"
coherence_preservation_at_most(original, modified, similarity) ==
    IF similarity <= CoherenceThreshold
    THEN <<original, similarity>>
    ELSE <<modified, similarity>>

\* the gate without lines 287-289: the modified text whatever the similarity
coherence_preservation_never_reverts(original, modified, similarity) ==
    <<modified, similarity>>

coherence_preservation(original, modified, similarity) ==
    IF similarity < CoherenceThreshold
    THEN <<original, similarity>>
    ELSE <<modified, similarity>>

(***************************************************************************)
(* Harness for _split_sentence                                             *)
(***************************************************************************)
MaxGenPieces == 3

GenPieces == { <<"a">>, <<" ","b">>, <<".">>, <<" ">> }

GenResults == Concats(GenPieces, MaxGenPieces)

SplitSentences ==
    { <<"a"," ","b"," ","c"," ","d",".">>,
      <<"a","a"," ","b","b"," ","c","c">>,
      <<"a",".","b",".">> }

InitSplit ==
    /\ PipelineIdle
    /\ arg \in [sentence : SplitSentences, result : GenResults]
    /\ ret = <<>>
    /\ step = 0

SplitCall ==
    /\ step = 0
    /\ ret' = split_sentence(arg.sentence, arg.result)
    /\ step' = 1
    /\ UNCHANGED <<arg, pvars>>

NextSplit == SplitCall

SpecSplit == InitSplit /\ [][NextSplit]_vars

\* C7: _split_sentence never drops content: the fragments returned hold at
\* least as many non-whitespace characters as the sentence, or the result is
\* the sentence verbatim.
SplitNeverDropsContent ==
    step = 1 =>
        \/ Len(NonWs(Flatten(ret))) >= Len(NonWs(arg.sentence))
        \/ ret = <<arg.sentence>>

(***************************************************************************)
(* Harness for coherence_preservation.  The embedding of a text is a       *)
(* function of the text, so equal texts have similarity 1.                 *)
(***************************************************************************)
CoherenceTexts == { <<"a",".">>, <<"b",".">>, <<>> }

Similarities(original, modified) ==
    IF original = modified THEN {100} ELSE (-100)..100

InitCoherence ==
    /\ PipelineIdle
    /\ \E original \in CoherenceTexts, modified \in CoherenceTexts :
           \E similarity \in Similarities(original, modified) :
               arg = [original |-> original, modified |-> modified,
                      similarity |-> similarity]
    /\ ret = <<>>
    /\ step = 0

CoherenceCall ==
    /\ step = 0
    /\ ret' = coherence_preservation(arg.original, arg.modified, arg.similarity)
    /\ step' = 1
    /\ UNCHANGED <<arg, pvars>>

NextCoherence == CoherenceCall

SpecCoherence == InitCoherence /\ [][NextCoherence]_vars

\* C4: coherence_preservation returns (original, similarity) when the
\* similarity is below 0.85 and (modified, similarity) otherwise; the text
\* returned is one of the two inputs, whole, and the score is the similarity.
CoherenceGateContract ==
    step = 1 =>
        /\ ret[1] \in {arg.original, arg.modified}
        /\ ret[2] = arg.similarity
        /\ (arg.similarity < 85 => ret[1] = arg.original)
        /\ (arg.similarity >= 85 => ret[1] = arg.modified)

\* a revert: the similarity is low and the original, not the modified text,
\* came back
CoherenceGateReverted ==
    /\ step = 1
    /\ arg.similarity < 85
    /\ arg.original # arg.modified
    /\ ret = <<arg.original, arg.similarity>>

(***************************************************************************)
(* Layer 2: vocabulary_adaptation                                          *)
(***************************************************************************)
\* vocab_replacements, in the dictionary's (insertion) order
vocab_replacements ==
    << <<<<"u","t","i","l","i","z","e">>,
         <<"u","s","e">>>>,
       <<<<"f","a","c","i","l","i","t","a","t","e">>,
         <<"h","e","l","p">>>>,
       <<<<"d","e","m","o","n","s","t","r","a","t","e">>,
         <<"s","h","o","w">>>>,
       <<<<"i","m","p","l","e","m","e","n","t">>,
         <<"d","o">>>>,
       <<<<"c","o","n","s","e","q","u","e","n","t","l","y">>,
         <<"s","o">>>>,
       <<<<"f","u","r","t","h","e","r","m","o","r","e">>,
         <<"a","l","s","o">>>>,
       <<<<"n","e","v","e","r","t","h","e","l","e","s","s">>,
         <<"b","u","t">>>>,
       <<<<"c","o","m","p","r","e","h","e","n","s","i","v","e">>,
         <<"c","o","m","p","l","e","t","e">>>> >>

\* the loop of lines 209-210 from entry i on
RECURSIVE ApplyReplacements(_, _)
ApplyReplacements(text, i) ==
    IF i > Len(vocab_replacements) THEN text
    ELSE ApplyReplacements(
             Replace(text, vocab_replacements[i][1], vocab_replacements[i][2]),
             i + 1)

vocabulary_adaptation(text) == ApplyReplacements(text, 1)

(***************************************************************************)
(* Harness for vocabulary_adaptation: one pass, then a second pass over    *)
(* the first pass's output.                                                *)
(***************************************************************************)
MaxPieces == 2

VocabPieces ==
    {vocab_replacements[i][1] : i \in 1..Len(vocab_replacements)}
    \cup { <<"i","l","i","z","e">>,
           <<"n","e","v","e","r","t","h","e","l","e","s">>,
           <<" ">>,
           <<"x">> }

VocabInputs == Concats(VocabPieces, MaxPieces)

InitVocab ==
    /\ PipelineIdle
    /\ arg \in VocabInputs
    /\ ret = <<>>
    /\ step = 0

VocabFirstPass ==
    /\ step = 0
    /\ ret' = <<vocabulary_adaptation(arg)>>
    /\ step' = 1
    /\ UNCHANGED <<arg, pvars>>

VocabSecondPass ==
    /\ step = 1
    /\ ret' = Append(ret, vocabulary_adaptation(ret[1]))
    /\ step' = 2
    /\ UNCHANGED <<arg, pvars>>

NextVocab == VocabFirstPass \/ VocabSecondPass

SpecVocab == InitVocab /\ [][NextVocab]_vars

\* C6: a second pass of vocabulary_adaptation changes nothing, and the first
\* pass's output holds no occurrence of a mapped input term.
VocabIdempotent ==
    step = 2 =>
        /\ ret[2] = ret[1]
        /\ \A i \in 1..Len(vocab_replacements) :
               ~Contains(ret[1], vocab_replacements[i][1])

(***************************************************************************)
(* POST /humanize-text: generate_humanized_text, one generator per         *)
(* request, all on one event loop.  A generator gives the loop back where  *)
(* it yields an item (and in the asyncio.sleep that follows the yield);    *)
(* the stage methods are coroutines that never suspend, so a stage runs    *)
(* to its end once entered.  The stages that call a model synchronously    *)
(* (BART, T5, the sentence transformer) are cut in two, Begin and End:     *)
(* between the two the request holds the loop.                             *)
(***************************************************************************)
Requests == {"r1", "r2"}

EmptyDict == [keys |-> {}]

\* request.user_patterns: None, {} or a profile with the caller's phrases
NoProfile == [supplied |-> FALSE, dict |-> EmptyDict]

EmptyProfile == [supplied |-> TRUE, dict |-> EmptyDict]

CallerProfile ==
    [supplied |-> TRUE,
     dict |-> [keys |-> {"avg_sentence_length", "sentence_length_std", "common_phrases"},
               avg_sentence_length |-> Number(2),
               sentence_length_std |-> Deviation(0),
               common_phrases |-> << <<"s","o">>, <<"o","k">> >>]]

Profiles == {NoProfile, EmptyProfile, CallerProfile}

RequestTexts ==
    { <<"a"," ","b"," ","c","."," ","d",".">>,
      <<"u","t","i","l","i","z","e"," ","i","t","."," ","o","k",".">> }

\* what BART decodes for a sentence to split
SplitResults ==
    { <<"x","."," ","y",".">>,
      <<"z">> }

\* what T5 decodes for the text
AuthResults ==
    { <<>>,
      <<"p","."," ","q","."," ","r">> }

\* the cosine similarity of two different texts, in hundredths
PipelineSimilarities == {84, 85, 86}

\* the random states the process may start with
RandomSeeds == { <<0, 1, 5>>, <<5, 0, 0>> }

\* not request.user_patterns
NotPatterns(req) == ~req.user_patterns.supplied \/ req.user_patterns.dict.keys = {}

Progress(stage) == [type |-> "progress", step |-> stage]

Complete(text, similarity, patterns) ==
    [type |-> "complete", text |-> text, similarity_score |-> similarity,
     user_patterns |-> patterns]

ErrorEvent == [type |-> "error"]

Done == [type |-> "DONE"]

Yield(item) == [kind |-> "yield", item |-> item]

Begin(stage, input) == [kind |-> "begin", stage |-> stage, input |-> input]

End(stage, output) == [kind |-> "end", stage |-> stage, output |-> output]

Raise(stage) == [kind |-> "raise", stage |-> stage]

Init ==
    /\ np_random \in RandomSeeds
    /\ np_random0 = np_random
    /\ running = None
    /\ request \in [Requests -> [text : RequestTexts, user_patterns : Profiles]]
    /\ pc = [r \in Requests |-> "start"]
    /\ current_text = [r \in Requests |-> <<>>]
    /\ user_patterns = [r \in Requests |-> EmptyDict]
    /\ log = [r \in Requests |-> <<>>]
    /\ arg = <<>>
    /\ ret = <<>>
    /\ step = 0

\* the request goes on to position p, having done `entries`, with its locals
\* set to text and patterns
GoesOn(r, p, entries, text, patterns) ==
    /\ pc' = [pc EXCEPT ![r] = p]
    /\ log' = [log EXCEPT ![r] = @ \o entries]
    /\ current_text' = [current_text EXCEPT ![r] = text]
    /\ user_patterns' = [user_patterns EXCEPT ![r] = patterns]

\* the handler's yield placed inside the try block, before line 365: the
\* generator goes on to the sentinel
Fails_then_sentinel(r, before, stage) ==
    GoesOn(r, "complete", before \o <<Raise(stage), Yield(ErrorEvent)>>,
           current_text[r], user_patterns[r])

\* lines 367-369: the stage raised; the handler yields the error event
Fails(r, before, stage) ==
    GoesOn(r, "error", before \o <<Raise(stage), Yield(ErrorEvent)>>,
           current_text[r], user_patterns[r])

\* lines 318-325
Start(r) ==
    /\ running = None
    /\ pc[r] = "start"
    /\ GoesOn(r, "analyzing", <<Yield(Progress("analyzing"))>>,
              request[r].text, user_patterns[r])
    /\ UNCHANGED <<np_random, np_random0, running, request, uvars>>

\* lines 328-333
Analyze(r) ==
    /\ running = None
    /\ pc[r] = "analyzing"
    /\ IF NotPatterns(request[r])
       THEN LET analysis == analyze_user_patterns(current_text[r])
                began    == <<Begin("analysis", current_text[r])>>
            IN  \E fault \in BOOLEAN :
                    IF fault \/ analysis.raised
                    THEN Fails(r, began, "analysis")
                    ELSE GoesOn(r, "structural",
                                began \o <<End("analysis", analysis.value),
                                           Yield(Progress("structural"))>>,
                                current_text[r], analysis.value)
       ELSE GoesOn(r, "structural", <<Yield(Progress("structural"))>>,
                   current_text[r], request[r].user_patterns.dict)
    /\ UNCHANGED <<np_random, np_random0, running, request, uvars>>

\* lines 334-337, up to the first model call
StructuralBegin(r) ==
    /\ running = None
    /\ pc[r] = "structural"
    /\ running' = r
    /\ GoesOn(r, "in_structural", <<Begin("structural", current_text[r])>>,
              current_text[r], user_patterns[r])
    /\ UNCHANGED <<np_random, np_random0, request, uvars>>

\* lines 337-339
StructuralEnd(r) ==
    /\ running = r
    /\ pc[r] = "in_structural"
    /\ running' = None
    /\ \E fault \in BOOLEAN :
       \E results \in [1..SplitCalls(current_text[r], user_patterns[r]) -> SplitResults] :
           IF fault
           THEN Fails(r, <<>>, "structural")
           ELSE LET out == structural_humanization(current_text[r], user_patterns[r], results)
                IN  GoesOn(r, "vocabulary",
                           <<End("structural", out), Yield(Progress("vocabulary"))>>,
                           out, user_patterns[r])
    /\ UNCHANGED <<np_random, np_random0, request, uvars>>

\* the vocabulary stage given request.text, not the structural stage's output
Vocabulary_of_request_text(r) ==
    /\ running = None
    /\ pc[r] = "vocabulary"
    /\ LET out == vocabulary_adaptation(request[r].text)
       IN  GoesOn(r, "authenticity",
                  <<Begin("vocabulary", request[r].text), End("vocabulary", out),
                    Yield(Progress("authenticity"))>>,
                  out, user_patterns[r])
    /\ UNCHANGED <<np_random, np_random0, running, request, uvars>>

\* lines 340-345
Vocabulary(r) ==
    /\ running = None
    /\ pc[r] = "vocabulary"
    /\ LET out == vocabulary_adaptation(current_text[r])
       IN  GoesOn(r, "authenticity",
                  <<Begin("vocabulary", current_text[r]), End("vocabulary", out),
                    Yield(Progress("authenticity"))>>,
                  out, user_patterns[r])
    /\ UNCHANGED <<np_random, np_random0, running, request, uvars>>

\* lines 346-349, up to the model call
AuthenticityBegin(r) ==
    /\ running = None
    /\ pc[r] = "authenticity"
    /\ running' = r
    /\ GoesOn(r, "in_authenticity", <<Begin("authenticity", current_text[r])>>,
              current_text[r], user_patterns[r])
    /\ UNCHANGED <<np_random, np_random0, request, uvars>>

\* lines 349-351
AuthenticityEnd(r) ==
    /\ running = r
    /\ pc[r] = "in_authenticity"
    /\ running' = None
    /\ \E fault \in BOOLEAN, result \in AuthResults :
           IF fault
           THEN Fails(r, <<>>, "authenticity")
           ELSE LET out == authenticity_injection(current_text[r], result)
                IN  GoesOn(r, "voice",
                           <<End("authenticity", out), Yield(Progress("voice"))>>,
                           out, user_patterns[r])
    /\ UNCHANGED <<np_random, np_random0, request, uvars>>

\* lines 352-357
Voice(r) ==
    /\ running = None
    /\ pc[r] = "voice"
    /\ LET out == personal_voice_integration(current_text[r], user_patterns[r], np_random)
       IN  /\ np_random' = out.rng
           /\ GoesOn(r, "coherence",
                     <<Begin("voice", current_text[r]), End("voice", out.text),
                       Yield(Progress("coherence"))>>,
                     out.text, user_patterns[r])
    /\ UNCHANGED <<np_random0, running, request, uvars>>

\* lines 358-361, up to the model call
CoherenceBegin(r) ==
    /\ running = None
    /\ pc[r] = "coherence"
    /\ running' = r
    /\ GoesOn(r, "in_coherence",
              <<Begin("coherence", <<request[r].text, current_text[r]>>)>>,
              current_text[r], user_patterns[r])
    /\ UNCHANGED <<np_random, np_random0, request, uvars>>

\* lines 361-364.  json.dumps raises on a score that is no Python float (a
\* numpy float32, which the norm of float32 embeddings gives): `serializable`.
CoherenceEnd(r) ==
    /\ running = r
    /\ pc[r] = "in_coherence"
    /\ running' = None
    /\ \E fault \in BOOLEAN, serializable \in BOOLEAN :
       \E similarity \in (IF request[r].text = current_text[r] THEN {100}
                          ELSE PipelineSimilarities) :
           IF fault
           THEN Fails(r, <<>>, "coherence")
           ELSE LET out == coherence_preservation(request[r].text, current_text[r],
                                                  similarity)
                IN  IF serializable
                    THEN GoesOn(r, "complete",
                                <<End("coherence", out),
                                  Yield(Complete(out[1], out[2], user_patterns[r]))>>,
                                current_text[r], user_patterns[r])
                    ELSE Fails(r, <<End("coherence", out)>>, "complete")
    /\ UNCHANGED <<np_random, np_random0, request, uvars>>

\* the generator returning after line 364, without line 365
Sentinel_skipped(r) ==
    /\ running = None
    /\ pc[r] = "complete"
    /\ GoesOn(r, "sentinel", <<>>, current_text[r], user_patterns[r])
    /\ UNCHANGED <<np_random, np_random0, running, request, uvars>>

\* line 365
Sentinel(r) ==
    /\ running = None
    /\ pc[r] = "complete"
    /\ GoesOn(r, "sentinel", <<Yield(Done)>>, current_text[r], user_patterns[r])
    /\ UNCHANGED <<np_random, np_random0, running, request, uvars>>

\* the generator returns: after line 365, or after the handler's line 369
Close(r) ==
    /\ running = None
    /\ pc[r] \in {"sentinel", "error"}
    /\ GoesOn(r, "closed", <<>>, current_text[r], user_patterns[r])
    /\ UNCHANGED <<np_random, np_random0, running, request, uvars>>

\* one step of request r's generator
RequestStep(r) ==
    \/ Start(r)
    \/ Analyze(r)
    \/ StructuralBegin(r)
    \/ StructuralEnd(r)
    \/ Vocabulary(r)
    \/ AuthenticityBegin(r)
    \/ AuthenticityEnd(r)
    \/ Voice(r)
    \/ CoherenceBegin(r)
    \/ CoherenceEnd(r)
    \/ Sentinel(r)
    \/ Close(r)

Next == \E r \in Requests : RequestStep(r)

Spec == Init /\ [][Next]_vars

(***************************************************************************)
(* What a request's log shows                                              *)
(***************************************************************************)
\* the items the request has yielded to its stream, in order
Stream(r) ==
    LET ys == SelectSeq(log[r], LAMBDA e : e.kind = "yield")
    IN  [i \in 1..Len(ys) |-> ys[i].item]

\* an item's name: the stage of a progress event, else the item's type
Label(item) == IF item.type = "progress" THEN item.step ELSE item.type

Labels(r) == [i \in 1..Len(Stream(r)) |-> Label(Stream(r)[i])]

\* the stage work the request has done: its begins and ends, in order
Work(r) == SelectSeq(log[r], LAMBDA e : e.kind \in {"begin", "end"})

WorkNames(r) == [i \in 1..Len(Work(r)) |-> <<Work(r)[i].kind, Work(r)[i].stage>>]

HasRaised(r) == \E i \in 1..Len(log[r]) : log[r][i].kind = "raise"

Yielded(r, label) == \E i \in 1..Len(Labels(r)) : Labels(r)[i] = label

Count(seq, x) == Cardinality({i \in 1..Len(seq) : seq[i] = x})

StageOrder == <<"structural", "vocabulary", "authenticity", "voice", "coherence">>

\* begin and end of each stage of stages, in order
RECURSIVE BeginsAndEnds(_)
BeginsAndEnds(stages) ==
    IF stages = <<>> THEN <<>>
    ELSE << <<"begin", Head(stages)>>, <<"end", Head(stages)>> >>
         \o BeginsAndEnds(Tail(stages))

\* the events of the stream: its items but the sentinel
Events(r) == SelectSeq(Labels(r), LAMBDA l : l # "DONE")

\* C1: a request that completes without a fault has emitted exactly
\* analyzing (optional), structural, vocabulary, authenticity, voice,
\* coherence, complete, in that order, with analyzing there if and only if the
\* request carried no profile (an empty profile object taken as none).
EventsInOrderAnalyzingIffNoProfile ==
    \A r \in Requests :
        (pc[r] = "closed" /\ ~HasRaised(r)) =>
            Events(r) =
                (IF NotPatterns(request[r]) THEN <<"analyzing">> ELSE <<>>)
                \o StageOrder \o <<"complete">>

\* C2: a raise ends the run: the error event follows it at once and nothing
\* follows that (no stage, no progress event, no complete, no sentinel); there
\* is at most one error event, only after a raise, and never beside a
\* complete event.
FaultAbortsRun ==
    \A r \in Requests :
        /\ \A i \in 1..Len(log[r]) :
               log[r][i].kind = "raise" =>
                   /\ Len(log[r]) = i + 1
                   /\ log[r][i + 1].kind = "yield"
                   /\ log[r][i + 1].item.type = "error"
        /\ Count(Labels(r), "error") <= 1
        /\ Yielded(r, "error") => HasRaised(r)
        /\ HasRaised(r) => Count(Labels(r), "error") = 1
        /\ ~(Yielded(r, "error") /\ Yielded(r, "complete"))
        /\ HasRaised(r) => ~Yielded(r, "complete")

\* a run in which the model call of the authenticity stage raised, after the
\* stages before it ran, and which has ended
FaultInAuthenticityClosed ==
    \E r \in Requests :
        /\ pc[r] = "closed"
        /\ \E i \in 1..Len(log[r]) : log[r][i] = Raise("authenticity")
        /\ \E i \in 1..Len(log[r]) : log[r][i].kind = "end" /\ log[r][i].stage = "vocabulary"

\* the stages of a complete run, each begun and ended once, in order, each
\* given the text the one before returned
StagesChained(r) ==
    LET w == Work(r)
        k == Len(w) - 10
    IN  /\ k \in {0, 2}
        /\ SubSeq(WorkNames(r), k + 1, k + 10) = BeginsAndEnds(StageOrder)
        /\ k = 2 => SubSeq(WorkNames(r), 1, 2) = BeginsAndEnds(<<"analysis">>)
        /\ k = 2 => w[1].input = request[r].text
        /\ w[k + 1].input = request[r].text
        /\ w[k + 3].input = w[k + 2].output
        /\ w[k + 5].input = w[k + 4].output
        /\ w[k + 7].input = w[k + 6].output
        /\ w[k + 9].input = <<request[r].text, w[k + 8].output>>

AnalysisRan(r) ==
    \E i \in 1..Len(log[r]) : log[r][i].kind = "begin" /\ log[r][i].stage = "analysis"

EveryStreamEndsWithSentinel ==
    \A r \in Requests :
        pc[r] = "closed" =>
            /\ Stream(r)[Len(Stream(r))] = Done
            /\ Count(Labels(r), "DONE") = 1

\* C5 amended: the sentinel is only ever the last item of a stream, right
\* after the complete event; a stream that has ended after a complete event
\* ends with the sentinel, and a stream that has ended after an error event
\* ends with that event and holds no sentinel.
SentinelEndsCompletedStream ==
    \A r \in Requests :
        LET S == Labels(r)
        IN  /\ \A i \in 1..Len(S) :
                   S[i] = "DONE" => i = Len(S) /\ i > 1 /\ S[i - 1] = "complete"
            /\ (pc[r] = "closed" /\ Yielded(r, "complete")) => S[Len(S)] = "DONE"
            /\ (pc[r] = "closed" /\ ~Yielded(r, "complete")) =>
                   S[Len(S)] = "error" /\ ~Yielded(r, "DONE")

\* one stream has ended with complete and the sentinel, the other with error
ClosedWithSentinelAndWithError ==
    \E r \in Requests, q \in Requests :
        /\ pc[r] = "closed" /\ pc[q] = "closed"
        /\ Labels(r)[Len(Labels(r))] = "DONE"
        /\ Labels(q)[Len(Labels(q))] = "error"

\* C9: a request's result is what it would be had the request run alone from
\* the process's initial state: its voice stage returned what it returns on
\* the initial random state.
VoiceAsIfAlone ==
    \A r \in Requests :
        \A i \in 1..Len(log[r]) :
            (log[r][i].kind = "end" /\ log[r][i].stage = "voice") =>
                log[r][i].output =
                    personal_voice_integration(log[r][i - 1].input, user_patterns[r],
                                               np_random0).text

\* request a is inside a synchronous call of a generative or embedding model
InModelCall(a) ==
    /\ running = a
    /\ \/ pc[a] \in {"in_authenticity", "in_coherence"}
       \/ pc[a] = "in_structural" /\ SplitCalls(current_text[a], user_patterns[a]) > 0

\* request b is in flight with a stage or a progress event still to come
StageToCome(b) ==
    pc[b] \in {"analyzing", "structural", "vocabulary", "authenticity", "voice", "coherence"}

\* C10: while a request is inside a model call, another request in flight
\* can take its next step.
OthersProgressDuringModelCall ==
    \A a \in Requests, b \in Requests :
        (a # b /\ InModelCall(a) /\ StageToCome(b)) => ENABLED RequestStep(b)

(***************************************************************************)
(* Harness for personal_voice_integration: any text of VoiceTexts, a       *)
(* profile without phrases, with an empty list or with phrases, and any    *)
(* random state of MaxDraws draws.                                         *)
(***************************************************************************)
MaxDraws == 4

DrawValues == {0, 1, 5}

VoiceTexts ==
    { <<"a","."," ","b",".">>,
      <<"a","."," ","b">>,
      <<" ","a"," ","b"," ","."," ","c","."," ","d">>,
      <<"a","b">>,
      <<"a",".","."," ","b",".">>,
      <<>> }

VoiceProfiles ==
    { EmptyDict,
      [keys |-> {"common_phrases"}, common_phrases |-> <<>>],
      [keys |-> {"common_phrases"}, common_phrases |-> << <<"s","o">> >>],
      [keys |-> {"common_phrases"}, common_phrases |-> << <<"s","o">>, <<"o","k">> >>] }

InitVoice ==
    /\ PipelineIdle
    /\ arg \in [text : VoiceTexts, patterns : VoiceProfiles,
                rng : [1..MaxDraws -> DrawValues]]
    /\ ret = <<>>
    /\ step = 0

VoiceCall ==
    /\ step = 0
    /\ ret' = personal_voice_integration(arg.text, arg.patterns, arg.rng)
    /\ step' = 1
    /\ UNCHANGED <<arg, pvars>>

NextVoice == VoiceCall

SpecVoice == InitVoice /\ [][NextVoice]_vars

\* the profile has no phrase list, or an empty one
NoPhrases(patterns) ==
    "common_phrases" \notin patterns.keys \/ patterns.common_phrases = <<>>

\* C11: with the profile's common_phrases absent or empty,
\* personal_voice_integration returns its input text unchanged (and draws
\* nothing).
VoiceWithoutPhrasesIsIdentity ==
    (step = 1 /\ NoPhrases(arg.patterns)) =>
        /\ ret.text = arg.text
        /\ ret.rng = arg.rng

\* a text of several period-delimited fragments came back as it was, for a
\* profile without the key and for one with an empty list
VoiceReturnedTextWithPeriods ==
    /\ step = 1
    /\ NoPhrases(arg.patterns)
    /\ Len(SplitOn(arg.text, ".")) > 2
    /\ ret.text = arg.text

\* the non-empty period-delimited fragments of text, trimmed, in order
Fragments(text) ==
    LET kept == SelectSeq(SplitOn(text, "."), LAMBDA s : Strip(s) # <<>>)
    IN  [i \in 1..Len(kept) |-> Strip(kept[i])]

\* the piece lists that keep frags in order, with at most one phrase after a
\* fragment and none after the last
RECURSIVE AllowedPieces(_, _)
AllowedPieces(frags, phrases) ==
    IF Len(frags) <= 1 THEN {frags}
    ELSE LET inserts == {<<>>} \cup {<< <<" ">> \o phrases[k] \o <<",">> >> :
                                        k \in 1..Len(phrases)}
         IN  {<<Head(frags)>> \o ins \o rest :
                  ins \in inserts, rest \in AllowedPieces(Tail(frags), phrases)}

\* C17: with a non-empty phrase list the output keeps every non-empty
\* fragment, trimmed and in order, has at most one phrase after a fragment and
\* none after the last fragment, whatever the draws.
VoiceKeepsFragmentsNoPhraseAfterLast ==
    (step = 1 /\ ~NoPhrases(arg.patterns)) =>
        ret.text \in {Join(pieces, <<".", " ">>) :
                         pieces \in AllowedPieces(Fragments(arg.text),
                                                  arg.patterns.common_phrases)}


(***************************************************************************)
(* The place of the progress events among the stages' work.                *)
(***************************************************************************)
\* the step a stage's progress event names
StepOf(stage) == IF stage = "analysis" THEN "analyzing" ELSE stage

\* the begins of log[r][1..n] that have no end or raise yet
Unfinished(r, n) ==
    Cardinality({i \in 1..n : log[r][i].kind = "begin"})
    - Cardinality({i \in 1..n : log[r][i].kind \in {"end", "raise"}})

\* C12: a stage's work begins right after the progress event that names the
\* stage; a progress event comes when all work begun before it has finished,
\* and what follows it is the beginning of the work of the stage it names (so
\* the analyzing event is there only where the analysis stage is entered).
ProgressEventJustBeforeItsStage ==
    \A r \in Requests :
        \A i \in 1..Len(log[r]) :
            LET e == log[r][i]
            IN  /\ e.kind = "begin" =>
                       /\ i > 1
                       /\ log[r][i - 1] = Yield(Progress(StepOf(e.stage)))
                /\ (e.kind = "yield" /\ e.item.type = "progress") =>
                       /\ Unfinished(r, i - 1) = 0
                       /\ i < Len(log[r]) =>
                              /\ log[r][i + 1].kind = "begin"
                              /\ StepOf(log[r][i + 1].stage) = e.item.step

(***************************************************************************)
(* The text of the complete event.                                         *)
(***************************************************************************)
\* the complete event of request r's stream
CompleteEvent(r) ==
    LET s == Stream(r)
    IN  s[CHOOSE i \in 1..Len(s) : s[i].type = "complete"]

\* what the voice stage returned for request r
VoiceOutput(r) ==
    log[r][CHOOSE i \in 1..Len(log[r]) :
               log[r][i].kind = "end" /\ log[r][i].stage = "voice"].output

\* C13 as stated: the complete event's text is the voice stage's output when
\* the similarity is above 0.85 and the request's text otherwise, a similarity
\* of exactly 0.85 included.
CompleteTextRevertedAtThreshold ==
    \A r \in Requests :
        Yielded(r, "complete") =>
            CompleteEvent(r).text =
                IF CompleteEvent(r).similarity_score > 85
                THEN VoiceOutput(r)
                ELSE request[r].text

\* C13 amended: the complete event's text is the voice stage's output when the
\* similarity is 0.85 or above, and the request's text, as received, when it
\* is below 0.85.
CompleteTextRevertedBelowThreshold ==
    \A r \in Requests :
        Yielded(r, "complete") =>
            CompleteEvent(r).text =
                IF CompleteEvent(r).similarity_score >= 85
                THEN VoiceOutput(r)
                ELSE request[r].text

\* a request completed with the stages' text at a similarity of exactly 0.85,
\* and another with its own text back at a lower one
CompleteAtThresholdAndBelow ==
    \E a, b \in Requests :
        /\ Yielded(a, "complete")
        /\ CompleteEvent(a).similarity_score = 85
        /\ CompleteEvent(a).text = VoiceOutput(a)
        /\ VoiceOutput(a) # request[a].text
        /\ Yielded(b, "complete")
        /\ CompleteEvent(b).similarity_score < 85
        /\ CompleteEvent(b).text = request[b].text
        /\ VoiceOutput(b) # request[b].text

(***************************************************************************)
(* Harness for authenticity_injection: T5 decodes any mix of the prompt    *)
(* echoed, its first word, blanks and new text.                            *)
(***************************************************************************)
MaxAuthPieces == 3

AuthTexts == { <<>>, <<"a",".">>, <<"b"," ","c">> }

\* the prompt echoed, the start of it, a blank, new text
AuthPieces(text) ==
    { AuthPromptPrefix \o text, SubSeq(AuthPromptPrefix, 1, 7), <<" ">>, <<"x",".">> }

InitAuth ==
    /\ PipelineIdle
    /\ \E text \in AuthTexts :
       \E result \in Concats(AuthPieces(text), MaxAuthPieces) :
           arg = [text |-> text, result |-> result]
    /\ ret = <<>>
    /\ step = 0

AuthCall ==
    /\ step = 0
    /\ ret' = authenticity_injection(arg.text, arg.result)
    /\ step' = 1
    /\ UNCHANGED <<arg, pvars>>

NextAuth == AuthCall

SpecAuth == InitAuth /\ [][NextAuth]_vars

\* s is made of copies of prompt and blanks only
RECURSIVE OnlyPromptAndSpace(_, _)
OnlyPromptAndSpace(s, prompt) ==
    IF s = <<>> THEN TRUE
    ELSE IF IsPrefix(prompt, s)
         THEN OnlyPromptAndSpace(SubSeq(s, Len(prompt) + 1, Len(s)), prompt)
         ELSE IsSpace(Head(s)) /\ OnlyPromptAndSpace(Tail(s), prompt)

\* the model output is empty, or holds the echoed prompt and nothing else but
\* blanks
NothingButPrompt(text, result) ==
    \/ result = <<>>
    \/ /\ Contains(result, AuthPromptPrefix \o text)
       /\ OnlyPromptAndSpace(result, AuthPromptPrefix \o text)

\* C14: authenticity_injection returns a non-empty text for a non-empty input
\* whatever the model decoded, and returns the input text itself when the
\* model output is empty or is empty once the echoed prompt is stripped.
AuthenticityNeverEmpty ==
    step = 1 =>
        /\ arg.text # <<>> => ret # <<>>
        /\ NothingButPrompt(arg.text, arg.result) => ret = arg.text

\* the model echoed the prompt twice, with blanks around, and the text before
\* the injection came back
AuthenticityFellBackOnEcho ==
    /\ step = 1
    /\ arg.text # <<>>
    /\ arg.result # AuthPromptPrefix \o arg.text
    /\ Len(arg.result) > 2 * Len(AuthPromptPrefix)
    /\ NothingButPrompt(arg.text, arg.result)
    /\ ret = arg.text

(***************************************************************************)
(* What _split_sentence returns, by the pieces of the generated text.      *)
(***************************************************************************)
\* the pieces of text between periods that are not blank
NonBlankPieces(text) == SelectSeq(SplitOn(text, "."), LAMBDA s : Strip(s) # <<>>)

\* C15: with at most one non-blank piece between the periods of the generated
\* text, _split_sentence returns the sentence alone and verbatim; with more, it
\* returns the pieces in their order, each trimmed and ended by one period.
SplitFragmentsOrSentence ==
    step = 1 =>
        LET kept == NonBlankPieces(arg.result)
        IN  IF Len(kept) <= 1
            THEN ret = <<arg.sentence>>
            ELSE /\ Len(ret) = Len(kept)
                 /\ \A i \in 1..Len(kept) :
                        /\ ret[i] = Strip(kept[i]) \o <<".">>
                        /\ Count(ret[i], ".") = 1

\* two different fragments came back, one of them trimmed of a blank
SplitReturnedTrimmedFragments ==
    /\ step = 1
    /\ Len(NonBlankPieces(arg.result)) = 2
    /\ \E i \in 1..2 : Strip(NonBlankPieces(arg.result)[i]) # NonBlankPieces(arg.result)[i]
    /\ Len(ret) = 2
    /\ ret[1] # ret[2]

(***************************************************************************)
(* Harness for structural_humanization.  The targets of a profile are in   *)
(* halves: an average of a/2 tokens, a deviation of s/2.  BART decodes     *)
(* results[k] for the k-th call of _split_sentence.                        *)
(***************************************************************************)
MaxStructPieces == 2

StructPieces == { <<"a","."," ">>, <<"a"," ","b","."," ">>, <<"a"," ","b"," ","c","."," ">> }

StructTexts == Concats(StructPieces, MaxStructPieces)

StructHalves == { <<2, 0>>, <<3, 1>>, <<4, 2>>, <<4, 1>>, <<2, 2>> }

StructProfile(a, s) ==
    [keys |-> {"avg_sentence_length", "sentence_length_std"},
     avg_sentence_length |-> [num |-> a, den |-> 2],
     sentence_length_std |-> [sq |-> s * s, den |-> 2]]

StructProfiles == {EmptyDict} \cup {StructProfile(h[1], h[2]) : h \in StructHalves}

InitStruct ==
    /\ PipelineIdle
    /\ arg \in [text : StructTexts, patterns : StructProfiles,
                results : [1..MaxStructPieces -> SplitResults]]
    /\ ret = <<>>
    /\ step = 0

StructCall ==
    /\ step = 0
    /\ ret' = [text  |-> structural_humanization(arg.text, arg.patterns, arg.results),
               calls |-> SplitArguments(arg.text, arg.patterns)]
    /\ step' = 1
    /\ UNCHANGED <<arg, pvars>>

NextStruct == StructCall

SpecStruct == InitStruct /\ [][NextStruct]_vars

\* the sentences of text, each as its text
SentenceTexts(text) ==
    LET sentences == Sents(nlp(text))
    IN  [i \in 1..Len(sentences) |-> SpanText(sentences[i])]

\* twice target_avg + target_std of a profile of the harness
TwiceBand(patterns) ==
    IF patterns = EmptyDict THEN 2 * (15 + 5)
    ELSE LET h == CHOOSE h \in StructHalves : patterns = StructProfile(h[1], h[2])
         IN  h[1] + h[2]

\* the sentence has more whitespace-separated tokens than target_avg + target_std
Overlong(sentence, patterns) == 2 * Len(SplitWs(sentence)) > TwiceBand(patterns)

\* the sentences in their order, each overlong one replaced by what
\* _split_sentence made of it
RECURSIVE SplitWhereOverlong(_, _, _)
SplitWhereOverlong(sentences, patterns, results) ==
    IF sentences = <<>> THEN <<>>
    ELSE IF Overlong(Head(sentences), patterns)
    THEN split_sentence(Head(sentences), Head(results))
         \o SplitWhereOverlong(Tail(sentences), patterns, Tail(results))
    ELSE <<Head(sentences)>> \o SplitWhereOverlong(Tail(sentences), patterns, results)

=============================================================================
